---- MODULE Spec2Model ----
(***************************************************************************)
(* The Last Compiler (tlc/the_last_compiler.py): a command-line            *)
(* orchestrator that renders a prompt from a markdown specification, runs  *)
(* an external code-generation agent on it and delegates testing and       *)
(* running of the generated module to further subprocesses.                *)
(*                                                                         *)
(* Text (file names, paths, file contents) is a sequence of one-character  *)
(* strings; the fixed wording of a template is one opaque token.  Python   *)
(* truth values are integers, as in Python: False = 0, True = 1, and an    *)
(* object is truthy when it differs from 0.                                *)
(***************************************************************************)
EXTENDS Integers, Sequences, FiniteSets, TLC

\* -------------------------------------------------------------- bounds
\* longest base name drawn for the name conversion
MaxLen == 3
\* CLI invocations in one behaviour
MaxInvocations == 2
\* largest exit code a subprocess returns
MaxExitCode == 2
\* most entry lines the project manifest holds
MaxManifest == 2
\* longest spec content drawn for the test-strategy flag
MaxContent == 5

\* -------------------------------------------------------------- text
Alphabet == {"a", "1", "_", "-"}

MD == <<".", "m", "d">>

PY == <<".", "p", "y">>

PyFalse == 0

PyTrue == 1

Truthy(v) == v # 0

endswith(s, suffix) ==
    /\ Len(s) >= Len(suffix)
    /\ SubSeq(s, Len(s) - Len(suffix) + 1, Len(s)) = suffix

replace(s, old, new) == [i \in 1..Len(s) |-> IF s[i] = old THEN new ELSE s[i]]

\* Python's `sub in s`
contains(s, sub) ==
    \E i \in 0..(Len(s) - Len(sub)) : SubSeq(s, i + 1, i + Len(sub)) = sub

lower(s) ==
    [i \in 1..Len(s) |-> CASE s[i] = "T" -> "t"
                           [] s[i] = "E" -> "e"
                           [] s[i] = "S" -> "s"
                           [] OTHER -> s[i]]

basename(path) ==
    LET slashes == {i \in 1..Len(path) : path[i] = "/"}
        last == IF slashes = {} THEN 0
                ELSE CHOOSE i \in slashes : \A j \in slashes : j <= i
    IN SubSeq(path, last + 1, Len(path))

\* -------------------------------------------------------------- names
\* a mutant: the reverse direction forgets the extension
convert_name_no_extension(name) ==
    IF endswith(name, MD)
    THEN replace(SubSeq(name, 1, Len(name) - 3), "-", "_")
    ELSE replace(name, "_", "-")

convert_name(name) ==
    IF endswith(name, MD)
    THEN replace(SubSeq(name, 1, Len(name) - 3), "-", "_")
    ELSE replace(name, "_", "-") \o MD

\* a mutant: the module name is used as the command name
to_command_name_unchanged(module_name) == module_name

\* module_name.replace('_', '-')
to_command_name(module_name) == replace(module_name, "_", "-")

\* -------------------------------------------------------------- templates
\* the entry line the prompt asks for: <command> = "tlc.<module>:main"
entry_line(command_name, module_name) ==
    command_name \o <<" = \"tlc.">> \o module_name \o <<":main\"">>

\* CLAUDE_PROMPT_TEMPLATE rendered with its four bindings; a stretch of its
\* fixed wording is one token
CLAUDE_PROMPT_TEMPLATE(module_name, command_name, specification, test_strategy) ==
    <<"# Instructions ... tlc/">>
    \o module_name \o PY
    \o (IF test_strategy
        THEN <<"... tlc/tests/test_">>
             \o module_name \o PY
        ELSE <<>>)
    \o <<"[project.scripts]">>
    \o entry_line(command_name, module_name)
    \o <<"... only add ">> \o module_name \o PY
    \o <<"# Module Specification">>
    \o specification

\* NEW_MODULE_TEMPLATE.format(module_name=...)
NEW_MODULE_TEMPLATE(module_name) ==
    <<"# ">> \o module_name \o PY \o <<"TODO ...">>

PromptPath == <<"bin/prompt/the_last_compiler.md">>

\* the project manifest; its content is the list of its [project.scripts] lines
ManifestPath == <<"pyproject.toml">>

\* f"tlc/{module_name}.py"
module_path_of(module_name) == <<"t", "l", "c", "/">> \o module_name \o PY

\* f"tlc/tests/test_{module_name}.py"
test_path_of(module_name) ==
    <<"t", "l", "c", "/", "t", "e", "s", "t", "s", "/", "t", "e", "s", "t", "_">>
    \o module_name \o PY

\* -------------------------------------------------------------- state
VARIABLES
    fs,            \* the files of the working directory: path -> content
                   \* (the directories named in a path exist)
    pc,            \* where the CLI process is: idle, claude, pytest, uv, done
    command,       \* args.command
    spec_file,     \* args.spec_file
    module_args,   \* args.module_args
    exit_code,     \* <<>> while running, <<n>> once main has returned n
    invocations,   \* CLI invocations started so far
    agent_exit,    \* <<>>, or <<n>> once the agent subprocess exited n
    agent_input,   \* <<>>, or <<prompt file content when the agent was started>>
    pytest_exit,   \* <<>>, or <<n>> once the test runner exited n
    pytest_cmd,    \* <<>>, or <<argv of the test runner>>
    uv_exit,       \* <<>>, or <<n>> once the runner exited n
    uv_cmd,        \* <<>>, or <<argv of the runner>>
    fs_before,     \* fs when the invocation started
    fs_at_agent_exit,       \* <<>>, or <<fs when the agent exited>>
    name,          \* name conversion: the file name drawn
    module_id,     \* name conversion: convert_name(name)
    command_name,  \* name conversion: the command name of module_id
    round_trip,    \* name conversion: convert_name(module_id)
    npc,           \* name conversion: the conversions applied so far
    prompt_open,   \* whether the prompt file is open for writing
    prompt_writes, \* times the prompt file was opened for writing in this invocation
    agent_calls,   \* times the agent subprocess was started in this invocation
    last_rendered, \* <<>>, or << <<spec path, spec content>> >> of the last rendering
    spec_content,  \* test strategy: the spec content drawn
    strategy_flag  \* test strategy: <<>>, or <<the flag computed>>

procVars == <<pc, command, spec_file, module_args, exit_code, invocations>>

histVars == <<agent_exit, agent_input, pytest_exit, pytest_cmd, uv_exit, uv_cmd,
              fs_before, fs_at_agent_exit>>

nameVars == <<name, module_id, command_name, round_trip, npc>>

renderVars == <<prompt_open, prompt_writes, agent_calls, last_rendered>>

strategyVars == <<spec_content, strategy_flag>>

pureVars == <<nameVars, strategyVars>>

vars == <<fs, procVars, histVars, renderVars, pureVars>>

exists(path) == path \in DOMAIN fs

\* fs after open(path, 'w') ... f.write(content)
write_file(files, path, content) ==
    [p \in DOMAIN files \cup {path} |-> IF p = path THEN content ELSE files[p]]

\* -------------------------------------------------------------- inputs
BaseNames == UNION {[1..n -> Alphabet] : n \in 0..MaxLen}

FileNames == {b \o MD : b \in BaseNames}

\* the spec files the CLI is run on; two of them share the module a_b
SpecFiles == { <<"a", "-", "b">> \o MD, <<"a", "_", "b">> \o MD }

\* the spec_file arguments given: a spec file, its name without the extension,
\* or a spec file in a directory
SpecArgs == SpecFiles \cup { <<"a", "-", "b">>, <<"d", "/", "a", "-", "b">> \o MD }

\* what a user writes into a spec file
Contents == { <<"x">>, <<"T", "e", "s", "t">> }

ModuleArgs == { <<>>, <<"x", "y">> }

ExitCodes == 0..MaxExitCode

\* -------------------------------------------------------------- functions
\* a mutant: the search is case-sensitive
test_strategy_flag_case_sensitive(content) ==
    contains(content, <<"t", "e", "s", "t">>)

\* "test" in spec_content.lower()
test_strategy_flag(content) == contains(lower(content), <<"t", "e", "s", "t">>)

\* a mutant: the file is opened for appending
open_prompt_appends(files) ==
    IF PromptPath \in DOMAIN files THEN files
    ELSE write_file(files, PromptPath, <<>>)

\* open('bin/prompt/the_last_compiler.md', 'w'): the file is there and empty
open_prompt(files) == write_file(files, PromptPath, <<>>)

\* a mutant: the prompt names the module name as the command
render_prompt_module_as_command(files, spec_path) ==
    LET content == files[spec_path]
        module_name == convert_name(basename(spec_path))
        strategy == test_strategy_flag(content)
        prompt == CLAUDE_PROMPT_TEMPLATE(module_name, module_name, content,
                                         strategy)
    IN write_file(files, PromptPath, files[PromptPath] \o prompt)

\* a mutant: the entry is registered while the prompt is rendered
render_prompt_registers(files, spec_path) ==
    LET content == files[spec_path]
        module_name == convert_name(basename(spec_path))
        cmd_name == to_command_name(module_name)
        strategy == test_strategy_flag(content)
        prompt == CLAUDE_PROMPT_TEMPLATE(module_name, cmd_name, content,
                                         strategy)
        registered == write_file(files, ManifestPath,
                                 Append(files[ManifestPath],
                                        entry_line(cmd_name, module_name)))
    IN write_file(registered, PromptPath, files[PromptPath] \o prompt)

\* a mutant: the prompt is written over the spec file
render_prompt_into_spec(files, spec_path) ==
    LET content == files[spec_path]
        module_name == convert_name(basename(spec_path))
        cmd_name == to_command_name(module_name)
        strategy == test_strategy_flag(content)
        prompt == CLAUDE_PROMPT_TEMPLATE(module_name, cmd_name, content,
                                         strategy)
    IN write_file(files, spec_path, prompt)

\* render_prompt once the prompt file is open: the files after f.write(prompt)
\* and the close of the file
render_prompt(files, spec_path) ==
    LET content == files[spec_path]
        module_name == convert_name(basename(spec_path))
        cmd_name == to_command_name(module_name)
        strategy == test_strategy_flag(content)
        prompt == CLAUDE_PROMPT_TEMPLATE(module_name, cmd_name, content,
                                         strategy)
    IN write_file(files, PromptPath, files[PromptPath] \o prompt)

\* a mutant: an existing file is overwritten
create_new_module_overwrites(files, module_name) ==
    LET file_name == IF ~endswith(module_name, MD) THEN module_name \o MD
                     ELSE module_name
        replaced == replace(basename(file_name), "-", "_")
        python_module_name == IF endswith(replaced, MD)
                              THEN SubSeq(replaced, 1, Len(replaced) - 3)
                              ELSE replaced
    IN [fs |-> write_file(files, file_name,
                          NEW_MODULE_TEMPLATE(python_module_name)),
        ret |-> PyTrue]

\* create_new_module: the files afterwards and the value returned
create_new_module(files, module_name) ==
    LET file_name == IF ~endswith(module_name, MD) THEN module_name \o MD
                     ELSE module_name
        replaced == replace(basename(file_name), "-", "_")
        python_module_name == IF endswith(replaced, MD)
                              THEN SubSeq(replaced, 1, Len(replaced) - 3)
                              ELSE replaced
    IN IF file_name \in DOMAIN files
       THEN [fs |-> files, ret |-> PyFalse]
       ELSE [fs |-> write_file(files, file_name,
                               NEW_MODULE_TEMPLATE(python_module_name)),
             ret |-> PyTrue]

\* a mutant: the entry is registered once the agent has returned
compile_module_return_registers(files, spec_path, code) ==
    LET module_name == convert_name(basename(spec_path))
    IN [fs |-> write_file(files, ManifestPath,
                          Append(files[ManifestPath],
                                 entry_line(to_command_name(module_name),
                                            module_name))),
        ret |-> code]

\* compile_module once run_claude_code has returned `code`: the files are left
\* as they are and the agent's exit code is the value returned
compile_module_return(files, spec_path, code) == [fs |-> files, ret |-> code]

\* -------------------------------------------------------------- main
\* a mutant: main returns the result itself
Return_result(result) ==
    /\ pc' = "done"
    /\ exit_code' = <<result>>

\* main: `return 0 if <result> else 1`
Return(result) ==
    /\ pc' = "done"
    /\ exit_code' = <<IF Truthy(result) THEN 0 ELSE 1>>

\* parse_args of a fresh process
Begin(cmd, f, args) ==
    /\ pc \in {"idle", "done", "KeyboardInterrupt"}
    /\ invocations < MaxInvocations
    /\ invocations' = invocations + 1
    /\ command' = cmd
    /\ spec_file' = f
    /\ module_args' = args
    /\ fs_before' = fs
    /\ agent_exit' = <<>>
    /\ pytest_exit' = <<>>
    /\ uv_exit' = <<>>
    /\ fs_at_agent_exit' = <<>>
    /\ UNCHANGED pureVars

\* a handler that does not come to render_prompt
no_render ==
    /\ prompt_writes' = 0
    /\ agent_calls' = 0
    /\ UNCHANGED <<prompt_open, last_rendered>>

\* a mutant: the agent is started inside the `with` block of the prompt file
compile_module_invokes_early(spec_path) ==
    IF ~exists(spec_path)
    THEN /\ fs' = fs
         /\ agent_input' = <<>>
         /\ Return(PyFalse)
         /\ no_render
    ELSE /\ fs' = open_prompt(fs)
         /\ prompt_open' = TRUE
         /\ prompt_writes' = 1
         /\ agent_calls' = 1
         /\ agent_input' = <<fs'[PromptPath]>>
         /\ pc' = "claude"
         /\ exit_code' = <<>>
         /\ UNCHANGED last_rendered

\* a mutant: a missing spec file is not reported as a failure
compile_module_missing_ok(spec_path) ==
    IF ~exists(spec_path)
    THEN /\ fs' = fs
         /\ agent_input' = <<>>
         /\ Return(PyTrue)
         /\ no_render
    ELSE /\ fs' = open_prompt(fs)
         /\ prompt_open' = TRUE
         /\ prompt_writes' = 1
         /\ agent_calls' = 0
         /\ agent_input' = <<>>
         /\ pc' = "render"
         /\ exit_code' = <<>>
         /\ UNCHANGED last_rendered

\* compile_module up to render_prompt's open of the prompt file
compile_module(spec_path) ==
    IF ~exists(spec_path)
    THEN /\ fs' = fs
         /\ agent_input' = <<>>
         /\ Return(PyFalse)
         /\ no_render
    ELSE /\ fs' = open_prompt(fs)
         /\ prompt_open' = TRUE
         /\ prompt_writes' = 1
         /\ agent_calls' = 0
         /\ agent_input' = <<>>
         /\ pc' = "render"
         /\ exit_code' = <<>>
         /\ UNCHANGED last_rendered

\* render_prompt writes the prompt and closes the file; compile_module then
\* starts the agent subprocess
compile_module_invokes ==
    /\ pc = "render"
    /\ fs' = render_prompt(fs, spec_file)
    /\ prompt_open' = FALSE
    /\ last_rendered' = << <<spec_file, fs[spec_file]>> >>
    /\ agent_calls' = agent_calls + 1
    /\ agent_input' = <<fs'[PromptPath]>>
    /\ pc' = "claude"
    /\ UNCHANGED <<command, spec_file, module_args, exit_code, invocations,
                   agent_exit, pytest_exit, pytest_cmd, uv_exit, uv_cmd,
                   fs_before, fs_at_agent_exit, prompt_writes, pureVars>>

\* test_module after ensure_module_compiled returned True
test_module(spec_path) ==
    LET module_name == convert_name(basename(spec_path))
        test_path == test_path_of(module_name)
    IN IF ~exists(test_path)
       THEN /\ Return(PyFalse)
            /\ pytest_cmd' = <<>>
       ELSE /\ pc' = "pytest"
            /\ exit_code' = <<>>
            /\ pytest_cmd' = << <<"sys.executable", "-m", "pytest", test_path>> >>

\* run_module after ensure_module_compiled returned True
run_module(spec_path, args) ==
    LET module_name == convert_name(basename(spec_path))
        cmd_name == to_command_name(module_name)
    IN /\ pc' = "uv"
       /\ exit_code' = <<>>
       /\ uv_cmd' = << <<"uv", "run", cmd_name>> \o args >>

main_new(f) ==
    /\ Begin("new", f, <<>>)
    /\ LET r == create_new_module(fs, f)
       IN /\ fs' = r.fs
          /\ Return(r.ret)
    /\ no_render
    /\ agent_input' = <<>>
    /\ pytest_cmd' = <<>>
    /\ uv_cmd' = <<>>

main_compile(f) ==
    /\ Begin("compile", f, <<>>)
    /\ compile_module(f)
    /\ pytest_cmd' = <<>>
    /\ uv_cmd' = <<>>

\* test: ensure_module_compiled, then test_module's own steps
main_test(f) ==
    /\ Begin("test", f, <<>>)
    /\ uv_cmd' = <<>>
    /\ IF ~exists(module_path_of(convert_name(basename(f))))
       THEN /\ compile_module(f)
            /\ pytest_cmd' = <<>>
       ELSE /\ fs' = fs
            /\ agent_input' = <<>>
            /\ no_render
            /\ test_module(f)

\* a mutant: the module is compiled again although it exists
main_run_recompiles(f, args) ==
    /\ Begin("run", f, args)
    /\ pytest_cmd' = <<>>
    /\ compile_module(f)
    /\ uv_cmd' = <<>>

\* run: ensure_module_compiled, then run_module's own steps
main_run(f, args) ==
    /\ Begin("run", f, args)
    /\ pytest_cmd' = <<>>
    /\ IF ~exists(module_path_of(convert_name(basename(f))))
       THEN /\ compile_module(f)
            /\ uv_cmd' = <<>>
       ELSE /\ fs' = fs
            /\ agent_input' = <<>>
            /\ no_render
            /\ run_module(f, args)

main_version ==
    /\ Begin("version", <<>>, <<>>)
    /\ pc' = "done"
    /\ exit_code' = <<0>>
    /\ fs' = fs
    /\ no_render
    /\ agent_input' = <<>>
    /\ pytest_cmd' = <<>>
    /\ uv_cmd' = <<>>

main_no_command ==
    /\ Begin("none", <<>>, <<>>)
    /\ pc' = "done"
    /\ exit_code' = <<1>>
    /\ fs' = fs
    /\ no_render
    /\ agent_input' = <<>>
    /\ pytest_cmd' = <<>>
    /\ uv_cmd' = <<>>

\* -------------------------------------------------------------- subprocesses
\* a mutant: the agent is started again when it has failed
claude_returns_retries(code) ==
    /\ pc = "claude"
    /\ IF code # 0
       THEN /\ agent_calls' = agent_calls + 1
            /\ UNCHANGED <<fs, pc, exit_code, agent_exit, fs_at_agent_exit,
                           prompt_open, prompt_writes, last_rendered>>
       ELSE /\ agent_exit' = <<code>>
            /\ fs_at_agent_exit' = <<fs>>
            /\ Return(code)
            /\ UNCHANGED <<fs, renderVars>>
    /\ UNCHANGED <<command, spec_file, module_args, invocations, agent_input,
                   pytest_exit, pytest_cmd, uv_exit, uv_cmd, fs_before, pureVars>>

\* subprocess.call of the agent returns `code`; the caller goes on
claude_returns(code) ==
    /\ pc = "claude"
    /\ agent_exit' = <<code>>
    /\ fs_at_agent_exit' = <<fs>>
    /\ LET r == compile_module_return(fs, spec_file, code)
       IN /\ fs' = r.fs
          /\ CASE command = "compile" ->
                    /\ Return(r.ret)
                    /\ UNCHANGED <<pytest_cmd, uv_cmd>>
               [] command = "test" ->
                    /\ uv_cmd' = uv_cmd
                    /\ IF ~Truthy(r.ret)
                       THEN /\ Return(PyFalse)
                            /\ pytest_cmd' = pytest_cmd
                       ELSE test_module(spec_file)
               [] command = "run" ->
                    /\ pytest_cmd' = pytest_cmd
                    /\ IF ~Truthy(r.ret)
                       THEN /\ Return(PyFalse)
                            /\ uv_cmd' = uv_cmd
                       ELSE run_module(spec_file, module_args)
    /\ UNCHANGED <<command, spec_file, module_args, invocations, agent_input,
                   pytest_exit, uv_exit, fs_before, renderVars, pureVars>>

\* subprocess.call of pytest returns `code`
pytest_returns(code) ==
    /\ pc = "pytest"
    /\ pytest_exit' = <<code>>
    /\ Return(code)
    /\ UNCHANGED <<fs, command, spec_file, module_args, invocations, agent_exit,
                   agent_input, pytest_cmd, uv_exit, uv_cmd, fs_before,
                   fs_at_agent_exit, renderVars, pureVars>>

\* subprocess.call of uv run returns `code`
uv_returns(code) ==
    /\ pc = "uv"
    /\ uv_exit' = <<code>>
    /\ Return(code)
    /\ UNCHANGED <<fs, command, spec_file, module_args, invocations, agent_exit,
                   agent_input, pytest_exit, pytest_cmd, uv_cmd, fs_before,
                   fs_at_agent_exit, renderVars, pureVars>>

\* -------------------------------------------------------------- environment
\* The agent follows the prompt, in part or in whole, while it runs: it may
\* create the module, create its tests, and add the entry line to the manifest.
agent_module_name == convert_name(basename(spec_file))

agent_writes_module ==
    /\ pc = "claude"
    /\ ~exists(module_path_of(agent_module_name))
    /\ fs' = write_file(fs, module_path_of(agent_module_name), <<"generated">>)
    /\ UNCHANGED <<procVars, histVars, renderVars, pureVars>>

agent_writes_tests ==
    /\ pc = "claude"
    /\ ~exists(test_path_of(agent_module_name))
    /\ fs' = write_file(fs, test_path_of(agent_module_name), <<"generated">>)
    /\ UNCHANGED <<procVars, histVars, renderVars, pureVars>>

\* the entry line is added at most once in one run of the agent
agent_writes_manifest ==
    /\ pc = "claude"
    /\ Len(fs[ManifestPath]) < MaxManifest
    /\ fs[ManifestPath] = fs_before[ManifestPath]
    /\ fs' = write_file(fs, ManifestPath,
                        Append(fs[ManifestPath],
                               entry_line(to_command_name(agent_module_name),
                                          agent_module_name)))
    /\ UNCHANGED <<procVars, histVars, renderVars, pureVars>>

\* a user creates or edits a spec file between two invocations; what is
\* recorded of the invocation before it is dropped
user_writes_spec(f, content) ==
    /\ pc \in {"idle", "done", "KeyboardInterrupt"}
    /\ invocations < MaxInvocations
    /\ ~(exists(f) /\ fs[f] = content)
    /\ fs' = write_file(fs, f, content)
    /\ pc' = "idle"
    /\ command' = "none"
    /\ spec_file' = <<>>
    /\ module_args' = <<>>
    /\ exit_code' = <<>>
    /\ agent_exit' = <<>>
    /\ agent_input' = <<>>
    /\ pytest_exit' = <<>>
    /\ pytest_cmd' = <<>>
    /\ uv_exit' = <<>>
    /\ uv_cmd' = <<>>
    /\ fs_before' = fs'
    /\ fs_at_agent_exit' = <<>>
    /\ no_render
    /\ UNCHANGED <<invocations, pureVars>>

\* Ctrl-C while the process waits in subprocess.call: nothing in the program
\* catches KeyboardInterrupt, so it leaves run_claude_code, test_module or
\* run_module and then main as an unhandled exception; main returns nothing
keyboard_interrupt ==
    /\ pc \in {"claude", "pytest", "uv"}
    /\ pc' = "KeyboardInterrupt"
    /\ UNCHANGED <<fs, command, spec_file, module_args, exit_code, invocations,
                   histVars, renderVars, pureVars>>

\* -------------------------------------------------------------- specification
Init ==
    /\ fs = [p \in {ManifestPath} |-> <<>>]
    /\ pc = "idle"
    /\ command = "none"
    /\ spec_file = <<>>
    /\ module_args = <<>>
    /\ exit_code = <<>>
    /\ invocations = 0
    /\ agent_exit = <<>>
    /\ agent_input = <<>>
    /\ pytest_exit = <<>>
    /\ pytest_cmd = <<>>
    /\ uv_exit = <<>>
    /\ uv_cmd = <<>>
    /\ fs_before = fs
    /\ fs_at_agent_exit = <<>>
    /\ name = <<>>
    /\ module_id = <<>>
    /\ command_name = <<>>
    /\ round_trip = <<>>
    /\ npc = "off"
    /\ prompt_open = FALSE
    /\ prompt_writes = 0
    /\ agent_calls = 0
    /\ last_rendered = <<>>
    /\ spec_content = <<>>
    /\ strategy_flag = <<>>

Next ==
    \/ \E f \in SpecArgs : main_new(f)
    \/ \E f \in SpecArgs : main_compile(f)
    \/ \E f \in SpecArgs : main_test(f)
    \/ \E f \in SpecArgs, args \in ModuleArgs : main_run(f, args)
    \/ main_version
    \/ main_no_command
    \/ compile_module_invokes
    \/ \E code \in ExitCodes : claude_returns(code)
    \/ \E code \in ExitCodes : pytest_returns(code)
    \/ \E code \in ExitCodes : uv_returns(code)
    \/ agent_writes_module
    \/ agent_writes_tests
    \/ agent_writes_manifest
    \/ keyboard_interrupt
    \/ \E f \in SpecFiles, content \in Contents : user_writes_spec(f, content)

Spec == Init /\ [][Next]_vars

\* -------------------------------------------------------------- name conversion
\* The Name Converter on its own: a file name is drawn and converted to its
\* module identifier, from there to the command name and back to a file name.
InitNames ==
    /\ fs = [p \in {ManifestPath} |-> <<>>]
    /\ pc = "off"
    /\ command = "none"
    /\ spec_file = <<>>
    /\ module_args = <<>>
    /\ exit_code = <<>>
    /\ invocations = 0
    /\ agent_exit = <<>>
    /\ agent_input = <<>>
    /\ pytest_exit = <<>>
    /\ pytest_cmd = <<>>
    /\ uv_exit = <<>>
    /\ uv_cmd = <<>>
    /\ fs_before = fs
    /\ fs_at_agent_exit = <<>>
    /\ name \in FileNames
    /\ module_id = <<>>
    /\ command_name = <<>>
    /\ round_trip = <<>>
    /\ npc = "file"
    /\ prompt_open = FALSE
    /\ prompt_writes = 0
    /\ agent_calls = 0
    /\ last_rendered = <<>>
    /\ spec_content = <<>>
    /\ strategy_flag = <<>>

to_module_id ==
    /\ npc = "file"
    /\ module_id' = convert_name(name)
    /\ npc' = "module"
    /\ UNCHANGED <<fs, procVars, histVars, renderVars, strategyVars,
                   name, command_name, round_trip>>

derive_command_name ==
    /\ npc = "module"
    /\ command_name' = to_command_name(module_id)
    /\ npc' = "command"
    /\ UNCHANGED <<fs, procVars, histVars, renderVars, strategyVars,
                   name, module_id, round_trip>>

to_spec_file_name ==
    /\ npc = "command"
    /\ round_trip' = convert_name(module_id)
    /\ npc' = "back"
    /\ UNCHANGED <<fs, procVars, histVars, renderVars, strategyVars,
                   name, module_id, command_name>>

NextNames ==
    \/ to_module_id
    \/ derive_command_name
    \/ to_spec_file_name

SpecNames == InitNames /\ [][NextNames]_vars

\* -------------------------------------------------------------- test strategy
\* render_prompt's test-strategy flag on its own: a spec content is drawn and
\* the flag is computed from it.
ContentAlphabet == {"t", "e", "s", "T", "E", "x"}

ContentTexts == UNION {[1..n -> ContentAlphabet] : n \in 0..MaxContent}

InitStrategy ==
    /\ fs = [p \in {ManifestPath} |-> <<>>]
    /\ pc = "off"
    /\ command = "none"
    /\ spec_file = <<>>
    /\ module_args = <<>>
    /\ exit_code = <<>>
    /\ invocations = 0
    /\ agent_exit = <<>>
    /\ agent_input = <<>>
    /\ pytest_exit = <<>>
    /\ pytest_cmd = <<>>
    /\ uv_exit = <<>>
    /\ uv_cmd = <<>>
    /\ fs_before = fs
    /\ fs_at_agent_exit = <<>>
    /\ name = <<>>
    /\ module_id = <<>>
    /\ command_name = <<>>
    /\ round_trip = <<>>
    /\ npc = "off"
    /\ prompt_open = FALSE
    /\ prompt_writes = 0
    /\ agent_calls = 0
    /\ last_rendered = <<>>
    /\ spec_content \in ContentTexts
    /\ strategy_flag = <<>>

compute_test_strategy ==
    /\ strategy_flag = <<>>
    /\ strategy_flag' = <<test_strategy_flag(spec_content)>>
    /\ UNCHANGED <<fs, procVars, histVars, renderVars, nameVars, spec_content>>

NextStrategy == compute_test_strategy

SpecStrategy == InitStrategy /\ [][NextStrategy]_vars

\* -------------------------------------------------------------- claims
\* the module identifier of the spec file of the running invocation
ModuleOfSpec == convert_name(basename(spec_file))

\* the entry line of the spec file of the running invocation
EntryOfSpec == entry_line(replace(ModuleOfSpec, "_", "-"), ModuleOfSpec)

Registered(files) ==
    \E i \in 1..Len(files[ManifestPath]) : files[ManifestPath][i] = EntryOfSpec

\* C1 (as claimed): `compile` on an existing spec exits 0 when the agent exits
\* 0 and exits non-zero when the agent exits non-zero.
C1_CompileExitCode ==
    (pc = "done" /\ command = "compile" /\ agent_exit # <<>>)
        => /\ agent_exit = <<0>> => exit_code = <<0>>
           /\ agent_exit # <<0>> => exit_code # <<0>>

C5_RoundTrip == npc = "back" => round_trip = name

\* C5 (amended): the round trip yields the file name with every underscore
\* replaced by a hyphen; it is the file name itself exactly when the name
\* holds no underscore.
C5_RoundTripHyphens ==
    npc = "back"
        => /\ Len(round_trip) = Len(name)
           /\ \A i \in 1..Len(name) :
                round_trip[i] = IF name[i] = "_" THEN "-" ELSE name[i]
           /\ round_trip = name <=> ~(\E i \in 1..Len(name) : name[i] = "_")

\* C5 witness: a name with an underscore has made the round trip.
C5_Witness ==
    /\ npc = "back"
    /\ \E i \in 1..Len(name) : name[i] = "_"
    /\ round_trip # name

\* C6: `new` on an existing target returns 1 and changes no file; on an absent
\* target it returns 0 and creates just that file, holding the placeholder
\* template that names the underscore-form module identifier.
C6_New ==
    (pc = "done" /\ command = "new")
        => LET target == IF endswith(spec_file, MD) THEN spec_file
                         ELSE spec_file \o MD
           IN IF target \in DOMAIN fs_before
              THEN exit_code = <<1>> /\ fs = fs_before
              ELSE /\ exit_code = <<0>>
                   /\ DOMAIN fs = DOMAIN fs_before \cup {target}
                   /\ fs[target] = NEW_MODULE_TEMPLATE(convert_name(basename(target)))
                   /\ \A p \in DOMAIN fs_before : fs[p] = fs_before[p]

\* C6 witness: `new` has failed on a file that holds something else than the
\* placeholder.
C6_Witness ==
    /\ pc = "done"
    /\ command = "new"
    /\ exit_code = <<1>>
    /\ spec_file \in DOMAIN fs
    /\ fs[spec_file] = <<"x">>

\* C7 (as claimed): `test` exits with the test runner's exit code when the
\* test runner ran; when the test file is absent the test runner is not
\* invoked and the exit code is 1.
C7_TestExitCode ==
    (pc = "done" /\ command = "test")
        => /\ pytest_exit # <<>> => exit_code = pytest_exit
           /\ ~exists(test_path_of(ModuleOfSpec))
                => (pytest_cmd = <<>> /\ exit_code = <<1>>)

\* C8 (as claimed): `run` invokes the runner with the hyphen-form command name
\* followed by the passed-through arguments, and exits with its exit code.
C8_RunDelegation ==
    (pc = "done" /\ command = "run" /\ uv_exit # <<>>)
        => /\ uv_cmd = << <<"uv", "run", replace(ModuleOfSpec, "_", "-")>>
                          \o module_args >>
           /\ exit_code = uv_exit

\* C9: the command name derived from n + ".md" is n with every underscore
\* replaced by a hyphen.
C9_CommandName ==
    npc \in {"command", "back"}
        => /\ Len(command_name) = Len(name) - 3
           /\ \A i \in 1..Len(command_name) :
                command_name[i] = IF name[i] = "_" THEN "-" ELSE name[i]

\* C9 witness: the command name of a base name with a hyphen and an underscore
\* has been derived.
C9_Witness ==
    /\ npc = "command"
    /\ \E i, j \in 1..(Len(name) - 3) : name[i] = "_" /\ name[j] = "-"

\* C10 (as claimed): in `test` and `run`, once the agent has exited, the
\* command goes on to its delegation step exactly when the agent exited 0;
\* when it exited non-zero no runner is invoked and the command fails.
C10_DelegationIffCompiled ==
    (command \in {"test", "run"} /\ agent_exit # <<>>)
        => IF agent_exit = <<0>>
           THEN command = "run" => uv_cmd # <<>>
           ELSE /\ pytest_cmd = <<>>
                /\ uv_cmd = <<>>
                /\ pc = "done"
                /\ exit_code # <<0>>

\* the rendering of a spec at `path` holding `content`
RenderingOf(path, content) ==
    CLAUDE_PROMPT_TEMPLATE(convert_name(basename(path)),
                           replace(convert_name(basename(path)), "_", "-"),
                           content, test_strategy_flag(content))

\* C11: when the module file exists as `test` or `run` starts, nothing is
\* compiled: the prompt file is not written and the agent is not started,
\* whatever the spec file holds and whether it exists or not.
C11_ExistenceCheckOnly ==
    (command \in {"test", "run"} /\ module_path_of(ModuleOfSpec) \in DOMAIN fs_before)
        => /\ prompt_writes = 0
           /\ agent_calls = 0
           /\ agent_input = <<>>
           /\ pc \notin {"render", "claude"}
           /\ fs = fs_before

\* C11 witness: `run` has reached its runner for a spec file that does not
\* exist, the module file being there.
C11_Witness ==
    /\ command = "run"
    /\ pc = "uv"
    /\ module_path_of(ModuleOfSpec) \in DOMAIN fs_before
    /\ spec_file \notin DOMAIN fs

\* C12: while the agent runs, the prompt file is closed and holds the complete
\* rendering of the spec being compiled; it was opened once.
C12_PromptClosedBeforeAgent ==
    pc = "claude"
        => /\ ~prompt_open
           /\ prompt_writes = 1
           /\ PromptPath \in DOMAIN fs
           /\ fs[PromptPath] = RenderingOf(spec_file, fs[spec_file])
           /\ agent_input = <<fs[PromptPath]>>

\* C12 witness: the agent runs for a `test` command that had to compile.
C12_Witness ==
    /\ pc = "claude"
    /\ command = "test"
    /\ ~prompt_open
    /\ PromptPath \in DOMAIN fs_before

\* C13: with the spec file missing, `compile`, and `test` or `run` with the
\* module absent, end at once with exit code 1, no file written and the agent
\* not started.
C13_SpecNotFound ==
    (/\ command \in {"compile", "test", "run"}
     /\ spec_file \notin DOMAIN fs_before
     /\ command = "compile" \/ module_path_of(ModuleOfSpec) \notin DOMAIN fs_before)
        => /\ pc = "done"
           /\ exit_code = <<1>>
           /\ fs = fs_before
           /\ prompt_writes = 0
           /\ agent_calls = 0

\* C13 witness: `test` has ended with exit code 1 on a missing spec file
\* whose module is absent.
C13_Witness ==
    /\ pc = "done"
    /\ command = "test"
    /\ spec_file \notin DOMAIN fs
    /\ module_path_of(ModuleOfSpec) \notin DOMAIN fs
    /\ exit_code = <<1>>

\* C14 (as claimed): once the agent was started and is no longer waited for,
\* the invoker has returned an exit code: an interrupt does not end the
\* process as an unhandled fault.
C14_InterruptCaught ==
    (agent_calls > 0 /\ pc # "claude") => (agent_exit # <<>> /\ pc # "KeyboardInterrupt")

\* C15: outside a rendering in progress, the prompt file holds exactly the
\* rendering of the spec compiled last, and does not exist before the first
\* compile.
C15_PromptOfLastCompile ==
    pc # "render"
        => IF last_rendered = <<>>
           THEN PromptPath \notin DOMAIN fs
           ELSE /\ PromptPath \in DOMAIN fs
                /\ fs[PromptPath] = RenderingOf(last_rendered[1][1], last_rendered[1][2])

\* C15 witness: a second compile has replaced the prompt of an earlier one.
C15_Witness ==
    /\ pc = "done"
    /\ command = "compile"
    /\ agent_exit # <<>>
    /\ PromptPath \in DOMAIN fs_before
    /\ fs_before[PromptPath] # <<>>
    /\ fs[PromptPath] # fs_before[PromptPath]

\* C16: the test-strategy flag is true exactly when the content holds the
\* letters t, e, s, t in a row, each in either case.
C16_TestStrategy ==
    strategy_flag # <<>>
        => strategy_flag[1] =
             (\E i \in 1..(Len(spec_content) - 3) :
                 /\ spec_content[i] \in {"t", "T"}
                 /\ spec_content[i + 1] \in {"e", "E"}
                 /\ spec_content[i + 2] \in {"s", "S"}
                 /\ spec_content[i + 3] \in {"t", "T"})

\* C16 witness: the flag is true for a content that holds "test" only with a
\* capital letter, after another letter.
C16_Witness ==
    /\ strategy_flag = <<TRUE>>
    /\ spec_content = <<"x", "T", "E", "s", "t">>

\* C17: `compile`, `test` and `run` leave every spec file as it was, none
\* created, written or deleted; `new` changes no spec file that existed.
C17_SpecReadOnly ==
    /\ command \in {"compile", "test", "run"}
         => \A p \in DOMAIN fs \cup DOMAIN fs_before :
               endswith(p, MD)
                 => (p \in DOMAIN fs /\ p \in DOMAIN fs_before /\ fs[p] = fs_before[p])
    /\ command = "new"
         => \A p \in DOMAIN fs_before :
               endswith(p, MD) => (p \in DOMAIN fs /\ fs[p] = fs_before[p])

\* C17 witness: `test` has compiled, run the tests and ended with the spec
\* file in place.
C17_Witness ==
    /\ pc = "done"
    /\ command = "test"
    /\ agent_exit # <<>>
    /\ pytest_exit # <<>>
    /\ spec_file \in DOMAIN fs

\* C18: whenever main has returned, its value is 0 or 1.
C18_ExitCodeZeroOrOne == exit_code # <<>> => exit_code[1] \in {0, 1}

\* C18 witness: main has returned after the runner exited with code 2.
C18_Witness ==
    /\ pc = "done"
    /\ exit_code # <<>>
    /\ uv_exit = <<2>>

\* C19: in one invocation the agent is started at most once and the prompt
\* file is opened for writing at most once; `new`, `version` and no command
\* do neither.
C19_AtMostOneCompile ==
    /\ agent_calls <= 1
    /\ prompt_writes <= 1
    /\ command \in {"new", "version", "none"}
         => (agent_calls = 0 /\ prompt_writes = 0 /\ pc \notin {"render", "claude"})

\* C19 witness: `run` has compiled and run the module in one invocation.
C19_Witness ==
    /\ pc = "done"
    /\ command = "run"
    /\ agent_calls = 1
    /\ prompt_writes = 1
    /\ uv_exit # <<>>

====
